---------------------------- MODULE Spec2Model ----------------------------
(***************************************************************************)
(* Model of fabio's main package (src/main.go): process startup            *)
(* (initBackend), the signal hook, the reconciliation loop (watchBackend)  *)
(* and the Lookup functions of the HTTP and TCP-SNI proxies.               *)
(*                                                                         *)
(* Texts are sequences of characters.  "a" and "b" stand for one valid     *)
(* route line each, "x" for a malformed line and "\n" is the newline.      *)
(***************************************************************************)
EXTENDS Integers, Sequences, FiniteSets, TLC

\* ------------------------------------------------------------- bounds ----
MaxUpdates == 3      \* updates the watch channels deliver in one run
MaxTimeout == 1      \* largest cfg.Registry.Timeout tried
Retry      == 1      \* the cfg.Registry.Retry tried

\* -------------------------------------------------------------- values ----
NL  == "\n"
Nil == "nil"

\* config texts a backend pushes on its watch channels
Configs == { << >>, <<"a">>, <<"b">>, <<"x">> }

BackendNames == { "file", "static", "consul" }
\* values of cfg.Registry.Backend tried ("etcd" is no known backend)
BackendCfgs  == { "consul", "etcd" }

Hosts   == { "h1" }
Targets == { "t1", "t2" }

\* ------------------------------------------------------ route package ----
\* The text between the newlines of s, in order.
RECURSIVE SplitLines(_)
SplitLines(s) ==
    IF \A i \in 1..Len(s) : s[i] # NL
    THEN << s >>
    ELSE LET k == CHOOSE i \in 1..Len(s) :
                      s[i] = NL /\ \A j \in 1..(i-1) : s[j] # NL
         IN  << SubSeq(s, 1, k-1) >> \o SplitLines(SubSeq(s, k+1, Len(s)))

\* A rule line: "a" is `route add svc h1/ t1`, "b" is `route add svc h1/ t2`.
IsRule(line)  == line \in { <<"a">>, <<"b">> }
IsBlank(line) == line = << >>
RuleHost(line)   == "h1"
RuleTarget(line) == IF line = <<"a">> THEN "t1" ELSE "t2"

\* A Table maps each host to its targets, in definition order; isnil marks
\* Go's nil Table, the value NewTable returns beside an error.
EmptyRoutes == [ h \in Hosts |-> << >> ]
EmptyTable  == [ isnil |-> FALSE, routes |-> EmptyRoutes ]
NilTable    == [ isnil |-> TRUE,  routes |-> EmptyRoutes ]
\* The table the store holds before the first SetTable.
InitTable   == EmptyTable

RemoveTarget(ts, tg) == SelectSeq(ts, LAMBDA e : e # tg)

\* Adds the rule of one line; a target defined again moves to the end
\* (last definition wins).
AddRule(tbl, line) ==
    [ tbl EXCEPT !.routes[RuleHost(line)] =
          Append(RemoveTarget(@, RuleTarget(line)), RuleTarget(line)) ]

RECURSIVE BuildTable(_, _)
BuildTable(tbl, lines) ==
    IF lines = << >> THEN tbl
    ELSE IF IsBlank(Head(lines)) THEN BuildTable(tbl, Tail(lines))
    ELSE BuildTable(AddRule(tbl, Head(lines)), Tail(lines))

\* route.NewTable: parse failure is atomic, a text with one malformed line
\* yields no table at all.
NewTable(s) ==
    LET lines == SplitLines(s)
        bad   == \E i \in 1..Len(lines) :
                     ~IsBlank(lines[i]) /\ ~IsRule(lines[i])
    IN  IF bad THEN [ t |-> NilTable, err |-> "parse error" ]
        ELSE [ t |-> BuildTable(EmptyTable, lines), err |-> Nil ]

\* Table.Lookup / Table.LookupHost: the targets the matcher and the picker
\* can return for a host on one table; Nil when no route matches.
LookupTargets(tbl, host) ==
    IF tbl.routes[host] = << >> THEN { Nil }
    ELSE { tbl.routes[host][i] : i \in 1..Len(tbl.routes[host]) }

\* ---------------------------------------------------------- logRoutes ----
IsSpace(c) == c = NL

\* strings.TrimSpace
RECURSIVE TrimLeft(_)
TrimLeft(s) ==
    IF s # << >> /\ IsSpace(Head(s)) THEN TrimLeft(Tail(s)) ELSE s
RECURSIVE TrimRight(_)
TrimRight(s) ==
    IF s # << >> /\ IsSpace(s[Len(s)])
    THEN TrimRight(SubSeq(s, 1, Len(s) - 1)) ELSE s
TrimSpace(s) == TrimRight(TrimLeft(s))

\* strings.Replace(s, "\n", "\n" + prefix, -1)
RECURSIVE PrefixLines(_, _)
PrefixLines(s, prefix) ==
    IF s = << >> THEN << >>
    ELSE IF Head(s) = NL
         THEN << NL >> \o prefix \o PrefixLines(Tail(s), prefix)
         ELSE << Head(s) >> \o PrefixLines(Tail(s), prefix)

RECURSIVE CommonPrefix(_, _)
CommonPrefix(a, b) ==
    IF a # << >> /\ b # << >> /\ Head(a) = Head(b)
    THEN 1 + CommonPrefix(Tail(a), Tail(b)) ELSE 0

Reverse(s) == [ i \in 1..Len(s) |-> s[Len(s) + 1 - i] ]

\* dmp.DiffMain: the diff that keeps the common prefix and the common
\* suffix, deletes what is left of a and inserts what is left of b.
DiffMain(a, b) ==
    LET p  == CommonPrefix(a, b)
        a1 == SubSeq(a, p + 1, Len(a))
        b1 == SubSeq(b, p + 1, Len(b))
        q  == CommonPrefix(Reverse(a1), Reverse(b1))
        seg(op, text) == IF text = << >> THEN << >>
                         ELSE << [ Type |-> op, Text |-> text ] >>
    IN  seg("equal", SubSeq(a, 1, p))
        \o seg("delete", SubSeq(a1, 1, Len(a1) - q))
        \o seg("insert", SubSeq(b1, 1, Len(b1) - q))
        \o seg("equal", SubSeq(a1, Len(a1) - q + 1, Len(a1)))

\* lines 235-252
RECURSIVE fmtDiff(_)
fmtDiff(diffs) ==
    IF diffs = << >> THEN << >>
    ELSE LET d  == Head(diffs)
             tt == TrimSpace(d.Text)
         IN  IF tt = << >> THEN fmtDiff(Tail(diffs))
             ELSE IF d.Type = "delete"
                  THEN <<"-", " ">> \o PrefixLines(tt, <<"-", " ">>)
                       \o fmtDiff(Tail(diffs))
             ELSE IF d.Type = "insert"
                  THEN <<"+", " ">> \o PrefixLines(tt, <<"+", " ">>)
                       \o fmtDiff(Tail(diffs))
             ELSE fmtDiff(Tail(diffs))

\* Mutant of defFormat: the fallback format is "all".
defFormatAll == "all"

\* line 254
defFormat == "delta"

\* Mutant of logRoutes: format "delta" logs the delta even when it is
\* empty.
logRoutesAlways(l, n, format) ==
    IF format = "all"
    THEN << [ level |-> "INFO", text |-> n ] >>
    ELSE IF format = "delta"
    THEN << [ level |-> "INFO", text |-> fmtDiff(DiffMain(l, n)) ] >>
    ELSE << [ level |-> "WARN", text |-> << >> ],
            [ level |-> "INFO", text |-> fmtDiff(DiffMain(l, n)) ] >>

\* lines 254-267: the log entries logRoutes writes, in order.
RECURSIVE logRoutes(_, _, _)
logRoutes(l, n, format) ==
    IF format = "delta"
    THEN LET delta == fmtDiff(DiffMain(l, n))
         IN  IF delta # << >>
             THEN << [ level |-> "INFO", text |-> delta ] >>
             ELSE << >>
    ELSE IF format = "all"
    THEN << [ level |-> "INFO", text |-> n ] >>
    ELSE << [ level |-> "WARN", text |-> << >> ] >>
         \o logRoutes(l, n, defFormat)

InfoEntries(entries) ==
    Cardinality({ i \in 1..Len(entries) : entries[i].level = "INFO" })

\* values of cfg.Proxy.LogRoutes tried ("none" is no known format)
LogFormats == { "delta", "all", "none" }

\* --------------------------------------------- pickers and matchers ----
\* values of cfg.Proxy.Strategy and cfg.Proxy.Matcher tried ("bogus" names
\* no picker and no matcher)
Strategies == { "rnd", "bogus" }
Matchers   == { "prefix", "bogus" }

PickerNames  == { "rnd", "rr" }
MatcherNames == { "prefix", "glob" }

\* route.Picker[name] and route.Matcher[name]: a read of a map, which
\* gives nil for a name the map does not hold.
Picker(name)  == IF name \in PickerNames THEN name ELSE Nil
Matcher(name) == IF name \in MatcherNames THEN name ELSE Nil

\* The error config.Load returns: a strategy or a matcher that names no
\* implementation is a configuration error.
ConfigLoad(s, m) ==
    IF Picker(s) = Nil THEN "invalid proxy.strategy"
    ELSE IF Matcher(m) = Nil THEN "invalid proxy.matcher"
    ELSE Nil

\* ---------------------------------------------------------- variables ----
VARIABLES
    backend,          \* cfg.Registry.Backend
    strategy,         \* cfg.Proxy.Strategy
    matcher,          \* cfg.Proxy.Matcher
    logfmt,           \* cfg.Proxy.LogRoutes
    now,              \* time.Now(), as initBackend reads it
    deadline,         \* initBackend: deadline
    err,              \* initBackend: err
    attemptLate,      \* the attempt in progress began after the deadline
    mainpc,           \* position of the main goroutine
    exitcode,         \* how the process ended, Nil while it runs
    registryDefault,  \* registry.Default
    registered,       \* whether the discovery system lists this instance
    hookpc,           \* position of the signal hook passed to exit.Listen
    shuttingDown,     \* exit.ShuttingDown()
    deregCalls,       \* calls of registry.Default.Deregister
    admin,            \* the admin server was started
    listeners,        \* the proxy listeners were started
    nWatch,           \* watchBackend goroutines started
    pick, match,      \* newHTTPProxy: pick, match
    wbpc,             \* position of watchBackend
    svccfg, mancfg,   \* watchBackend: svccfg, mancfg
    last, next,       \* watchBackend: last, next
    t,                \* watchBackend: t
    pending,          \* updates the watch channels still deliver
    table,            \* the table store: what route.GetTable returns
    built,            \* the tables successful route.NewTable calls returned
    nNew, nSet,       \* calls of route.NewTable and of route.SetTable
    nInfo,            \* [INFO] entries logRoutes wrote
    logged,           \* the entries its last call wrote
    lkpc,             \* position of the Lookup in flight
    lkkind,           \* which Lookup it is: "http" or "tcp"
    lkhost,           \* the host (r.Host or serverName) it looks up
    snap,             \* the table its route.GetTable call returned
    gets,             \* route.GetTable calls of the Lookup in flight
    result,           \* the target it returned
    warned,           \* it logged "[WARN] No route"
    fnpc,             \* position of a logRoutes call on drawn arguments
    diffs,            \* logRoutes: the diffs handed to fmtDiff
    delta             \* logRoutes: delta

cfgvars  == << backend, strategy, matcher, logfmt >>
initvars == << now, deadline, err, attemptLate, registryDefault,
              registered >>
hookvars == << hookpc, shuttingDown, deregCalls >>
mainvars == << admin, listeners, nWatch, pick, match >>
wbvars   == << wbpc, svccfg, mancfg, last, next, t, pending >>
tblvars  == << table, built, nNew, nSet, nInfo, logged >>
lkvars   == << lkpc, lkkind, lkhost, snap, gets, result, warned >>
procvars == << mainpc, exitcode >>
fnvars   == << fnpc, diffs, delta >>

vars == << cfgvars, initvars, hookvars, mainvars, wbvars, tblvars, lkvars,
           procvars, fnvars >>

Running == mainpc # "exited"

\* os.Exit, a panic, or main returning: every goroutine stops where it is.
ProcessEnds(code) ==
    /\ mainpc' = "exited"
    /\ exitcode' = code

\* -------------------------------------------------------- initBackend ----
InInitBackend ==
    mainpc \in { "switch", "register", "deadline", "sleep", "shutdown" }

\* Only `now > deadline` is ever read, so the clock stops one past the
\* deadline.
Advance(d) == IF now + d > deadline THEN deadline + 1 ELSE now + d

\* line 167
InitBackendStart ==
    /\ mainpc = "initBackend"
    /\ \E timeout \in 0..MaxTimeout : deadline' = now + timeout
    /\ mainpc' = "switch"
    /\ UNCHANGED << cfgvars, now, err, attemptLate, registryDefault,
                    registered, hookvars, mainvars, wbvars, tblvars, lkvars,
                    exitcode, fnvars >>

\* Time passes while initBackend runs.
Tick ==
    /\ InInitBackend
    /\ now <= deadline
    /\ now' = now + 1
    /\ UNCHANGED << cfgvars, deadline, err, attemptLate, registryDefault,
                    registered, hookvars, mainvars, wbvars, tblvars, lkvars,
                    procvars, fnvars >>

\* lines 171-180: the backend is created, or creating it fails and
\* registry.Default is nil (the constructors return nil beside an error);
\* an unknown name is fatal.
InitBackendSwitch ==
    /\ mainpc = "switch"
    /\ IF backend \in BackendNames
       THEN /\ \E ok \in BOOLEAN :
                 /\ registryDefault' = IF ok THEN backend ELSE Nil
                 /\ err' = IF ok THEN Nil ELSE "backend error"
            /\ attemptLate' = (now > deadline)
            /\ mainpc' = "register"
            /\ UNCHANGED exitcode
       ELSE /\ ProcessEnds("fatal: unknown backend")
            /\ UNCHANGED << registryDefault, err, attemptLate >>
    /\ UNCHANGED << cfgvars, now, deadline, registered, hookvars, mainvars,
                    wbvars, tblvars, lkvars, fnvars >>

\* Mutant of InitBackendRegister: the error of Register is dropped and
\* initBackend returns after any Register call.
InitBackendRegisterIgnoreErr ==
    /\ mainpc = "register"
    /\ IF err = Nil
       THEN \E ok \in BOOLEAN :
                /\ registered' = (registered \/ ok)
                /\ err' = IF ok THEN Nil ELSE "register error"
                /\ mainpc' = "goWatch"
                /\ now' = 0
                /\ deadline' = 0
                /\ attemptLate' = FALSE
       ELSE /\ mainpc' = "deadline"
            /\ UNCHANGED << err, registered, now, deadline, attemptLate >>
    /\ UNCHANGED << cfgvars, registryDefault, hookvars, mainvars, wbvars,
                    tblvars, lkvars, exitcode, fnvars >>

\* lines 182-187: Register is called on a backend that was created; only
\* its success leaves initBackend.  deadline is a local of initBackend and
\* the clock is not read after it: both are cleared on return.
InitBackendRegister ==
    /\ mainpc = "register"
    /\ IF err = Nil
       THEN \E ok \in BOOLEAN :
                IF ok
                THEN /\ registered' = TRUE
                     /\ err' = Nil
                     /\ mainpc' = "goWatch"
                     /\ now' = 0
                     /\ deadline' = 0
                     /\ attemptLate' = FALSE
                ELSE /\ err' = "register error"
                     /\ mainpc' = "deadline"
                     /\ UNCHANGED << registered, now, deadline, attemptLate >>
       ELSE /\ mainpc' = "deadline"
            /\ UNCHANGED << err, registered, now, deadline, attemptLate >>
    /\ UNCHANGED << cfgvars, registryDefault, hookvars, mainvars, wbvars,
                    tblvars, lkvars, exitcode, fnvars >>

\* Mutant of InitBackendDeadline: the deadline is never enforced.
InitBackendDeadlineNoFatal ==
    /\ mainpc = "deadline"
    /\ mainpc' = "sleep"
    /\ UNCHANGED << cfgvars, initvars, hookvars, mainvars, wbvars, tblvars,
                    lkvars, exitcode, fnvars >>

\* lines 189-191
InitBackendDeadline ==
    /\ mainpc = "deadline"
    /\ IF now > deadline
       THEN ProcessEnds("fatal: timeout")
       ELSE mainpc' = "sleep" /\ UNCHANGED exitcode
    /\ UNCHANGED << cfgvars, initvars, hookvars, mainvars, wbvars, tblvars,
                    lkvars, fnvars >>

\* line 193
InitBackendSleep ==
    /\ mainpc = "sleep"
    /\ now' = Advance(Retry)
    /\ mainpc' = "shutdown"
    /\ UNCHANGED << cfgvars, deadline, err, attemptLate, registryDefault,
                    registered, hookvars, mainvars, wbvars, tblvars, lkvars,
                    exitcode, fnvars >>

\* Mutant of InitBackendShutdown: exit.ShuttingDown is not looked at.
InitBackendShutdownNoCheck ==
    /\ mainpc = "shutdown"
    /\ mainpc' = "switch"
    /\ UNCHANGED << cfgvars, initvars, hookvars, mainvars, wbvars, tblvars,
                    lkvars, exitcode, fnvars >>

\* lines 194-196
InitBackendShutdown ==
    /\ mainpc = "shutdown"
    /\ IF shuttingDown
       THEN ProcessEnds("exit 1")
       ELSE mainpc' = "switch" /\ UNCHANGED exitcode
    /\ UNCHANGED << cfgvars, initvars, hookvars, mainvars, wbvars, tblvars,
                    lkvars, fnvars >>

\* -------------------------------------------------------- signal hook ----
\* A termination signal arrives: exit.Listen runs the hook, once.
Signal ==
    /\ Running
    /\ mainpc # "load"
    /\ hookpc = "listen"
    /\ hookpc' = "line54"
    /\ UNCHANGED << cfgvars, initvars, shuttingDown, deregCalls, mainvars,
                    wbvars, tblvars, lkvars, procvars, fnvars >>

\* line 54
HookShutdown ==
    /\ Running
    /\ hookpc = "line54"
    /\ shuttingDown' = TRUE
    /\ hookpc' = "line55"
    /\ UNCHANGED << cfgvars, initvars, deregCalls, mainvars, wbvars, tblvars,
                    lkvars, procvars, fnvars >>

\* Mutant of HookCheckDefault: the nil check of lines 55-57 is missing.
HookCheckDefaultNoCheck ==
    /\ Running
    /\ hookpc = "line55"
    /\ hookpc' = "line58"
    /\ UNCHANGED << cfgvars, initvars, shuttingDown, deregCalls, mainvars,
                    wbvars, tblvars, lkvars, procvars, fnvars >>

\* lines 55-57.  The hook runs on its own goroutine and reads the
\* registry.Default that initBackend writes without synchronisation: it
\* sees the value from before or from after the write, which is the hook
\* step running before or after InitBackendSwitch.
HookCheckDefault ==
    /\ Running
    /\ hookpc = "line55"
    /\ hookpc' = IF registryDefault = Nil THEN "done" ELSE "line58"
    /\ UNCHANGED << cfgvars, initvars, shuttingDown, deregCalls, mainvars,
                    wbvars, tblvars, lkvars, procvars, fnvars >>

\* line 58: registry.Default is read again; initBackend may have set it to
\* nil since line 55, and the call on nil panics.
HookDeregister ==
    /\ Running
    /\ hookpc = "line58"
    /\ hookpc' = "done"
    /\ IF registryDefault = Nil
       THEN /\ ProcessEnds("panic: nil registry.Default")
            /\ UNCHANGED << deregCalls, registered >>
       ELSE /\ deregCalls' = deregCalls + 1
            /\ registered' = FALSE
            /\ UNCHANGED procvars
    /\ UNCHANGED << cfgvars, now, deadline, err, attemptLate, registryDefault,
                    shuttingDown, mainvars, wbvars, tblvars, lkvars, fnvars >>

\* --------------------------------------------------------------- main ----
\* Mutant of MainLoadConfig: the error of config.Load is not looked at.
MainLoadConfigIgnoreErr ==
    /\ mainpc = "load"
    /\ \E showVersion \in BOOLEAN :
          IF showVersion
          THEN ProcessEnds("version")
          ELSE mainpc' = "initBackend" /\ exitcode' = exitcode
    /\ UNCHANGED << cfgvars, initvars, hookvars, mainvars, wbvars, tblvars,
                    lkvars, fnvars >>

\* lines 40-47: config.Load; its error is fatal, and a nil configuration
\* (the version was asked for) ends main.
MainLoadConfig ==
    /\ mainpc = "load"
    /\ \E showVersion \in BOOLEAN :
          IF ConfigLoad(strategy, matcher) # Nil
          THEN ProcessEnds("fatal: config")
          ELSE IF showVersion
          THEN ProcessEnds("version")
          ELSE mainpc' = "initBackend" /\ exitcode' = exitcode
    /\ UNCHANGED << cfgvars, initvars, hookvars, mainvars, wbvars, tblvars,
                    lkvars, fnvars >>

\* Mutant of MainGoWatch: the go statement is run twice.
MainGoWatchTwice ==
    /\ mainpc = "goWatch"
    /\ nWatch' = nWatch + 1
    /\ wbpc' = "watch"
    /\ mainpc' = IF nWatch = 0 THEN "goWatch" ELSE "startAdmin"
    /\ UNCHANGED << cfgvars, initvars, hookvars, admin, listeners, pick,
                    match, svccfg, mancfg, last, next, t, pending, tblvars,
                    lkvars, exitcode, fnvars >>

\* line 67
MainGoWatch ==
    /\ mainpc = "goWatch"
    /\ nWatch' = nWatch + 1
    /\ wbpc' = "watch"
    /\ mainpc' = "startAdmin"
    /\ UNCHANGED << cfgvars, initvars, hookvars, admin, listeners, pick,
                    match, svccfg, mancfg, last, next, t, pending, tblvars,
                    lkvars, exitcode, fnvars >>

\* line 68 (the admin server itself, lines 121-132, is outside the model)
MainStartAdmin ==
    /\ mainpc = "startAdmin"
    /\ admin' = TRUE
    /\ mainpc' = "startListeners"
    /\ UNCHANGED << cfgvars, initvars, hookvars, listeners, nWatch, pick,
                    match, wbvars, tblvars, lkvars, exitcode, fnvars >>

\* lines 71-73: newHTTPProxy reads its picker and its matcher (line 78),
\* then the listeners start.
MainStartListeners ==
    /\ mainpc = "startListeners"
    /\ pick' = Picker(strategy)
    /\ match' = Matcher(matcher)
    /\ listeners' = TRUE
    /\ mainpc' = "wait"
    /\ UNCHANGED << cfgvars, initvars, hookvars, admin, nWatch, wbvars,
                    tblvars, lkvars, exitcode, fnvars >>

\* line 74: exit.Wait returns once the hook has run; main returns and the
\* process ends.
MainWait ==
    /\ mainpc = "wait"
    /\ hookpc = "done"
    /\ ProcessEnds("exit 0")
    /\ UNCHANGED << cfgvars, initvars, hookvars, mainvars, wbvars, tblvars,
                    lkvars, fnvars >>

\* ------------------------------------------------------- watchBackend ----
\* lines 207-208
WbWatch ==
    /\ Running
    /\ wbpc = "watch"
    /\ IF registryDefault = Nil
       THEN ProcessEnds("panic: nil registry.Default") /\ UNCHANGED wbpc
       ELSE wbpc' = "select" /\ UNCHANGED procvars
    /\ UNCHANGED << cfgvars, initvars, hookvars, mainvars, svccfg, mancfg,
                    last, next, t, pending, tblvars, lkvars, fnvars >>

\* Mutant of Merge: the manual config comes first.
MergeSwapped(svc, man) == man \o << NL >> \o svc

\* line 218
Merge(svc, man) == svc \o << NL >> \o man

\* Mutant of WbMerge: the comparison with last is missing.
WbMergeNoCheck(svc, man) ==
    /\ svccfg' = svc
    /\ mancfg' = man
    /\ wbpc' = "parse"
    /\ next' = Merge(svc, man)
    /\ pending' = pending - 1
    /\ UNCHANGED << cfgvars, initvars, hookvars, mainvars, last, t, tblvars,
                    lkvars, procvars, fnvars >>

\* lines 218-221, after a receive left the pair (svc, man)
WbMerge(svc, man) ==
    /\ svccfg' = svc
    /\ mancfg' = man
    /\ IF Merge(svc, man) = last
       THEN wbpc' = "select" /\ next' = << >>
       ELSE wbpc' = "parse" /\ next' = Merge(svc, man)
    /\ pending' = pending - 1
    /\ UNCHANGED << cfgvars, initvars, hookvars, mainvars, last, t, tblvars,
                    lkvars, procvars, fnvars >>

\* line 212 and lines 218-221
WbRecvServices ==
    /\ Running
    /\ wbpc = "select"
    /\ pending > 0
    /\ \E c \in Configs : WbMerge(c, mancfg)

\* line 213 and lines 218-221
WbRecvManual ==
    /\ Running
    /\ wbpc = "select"
    /\ pending > 0
    /\ \E c \in Configs : WbMerge(svccfg, c)

\* Mutant of WbNewTable: a failed parse publishes an empty table.
WbNewTableBlank ==
    /\ Running
    /\ wbpc = "parse"
    /\ nNew' = nNew + 1
    /\ LET r == NewTable(next)
       IN  IF r.err # Nil
           THEN /\ wbpc' = "select"
                /\ next' = << >>
                /\ table' = EmptyTable
                /\ UNCHANGED << t, built >>
           ELSE /\ wbpc' = "set"
                /\ t' = r.t
                /\ built' = built \cup { r.t }
                /\ UNCHANGED << next, table >>
    /\ UNCHANGED << cfgvars, initvars, hookvars, mainvars, svccfg, mancfg,
                    last, pending, nSet, nInfo, logged, lkvars, procvars,
                    fnvars >>

\* Mutant of WbNewTable: the error is ignored (the `continue` is missing).
WbNewTableIgnoreErr ==
    /\ Running
    /\ wbpc = "parse"
    /\ nNew' = nNew + 1
    /\ LET r == NewTable(next)
       IN  /\ wbpc' = "set"
           /\ t' = r.t
           /\ built' = IF r.err # Nil THEN built ELSE built \cup { r.t }
    /\ UNCHANGED << cfgvars, initvars, hookvars, mainvars, svccfg, mancfg,
                    last, next, pending, table, nSet, nInfo, logged, lkvars,
                    procvars, fnvars >>

\* lines 223-227
WbNewTable ==
    /\ Running
    /\ wbpc = "parse"
    /\ nNew' = nNew + 1
    /\ LET r == NewTable(next)
       IN  IF r.err # Nil
           THEN /\ wbpc' = "select"
                /\ next' = << >>
                /\ UNCHANGED << t, built >>
           ELSE /\ wbpc' = "set"
                /\ t' = r.t
                /\ built' = built \cup { r.t }
                /\ UNCHANGED next
    /\ UNCHANGED << cfgvars, initvars, hookvars, mainvars, svccfg, mancfg,
                    last, pending, table, nSet, nInfo, logged, lkvars,
                    procvars, fnvars >>

\* Mutant of WbSetTable: the new table is not stored.
WbSetTableSkip ==
    /\ Running
    /\ wbpc = "set"
    /\ table' = table
    /\ nSet' = nSet + 1
    /\ wbpc' = "log"
    /\ UNCHANGED << cfgvars, initvars, hookvars, mainvars, svccfg, mancfg,
                    last, next, t, pending, built, nNew, nInfo, logged,
                    lkvars, procvars, fnvars >>

\* line 228
WbSetTable ==
    /\ Running
    /\ wbpc = "set"
    /\ table' = t
    /\ nSet' = nSet + 1
    /\ wbpc' = "log"
    /\ UNCHANGED << cfgvars, initvars, hookvars, mainvars, svccfg, mancfg,
                    last, next, t, pending, built, nNew, nInfo, logged,
                    lkvars, procvars, fnvars >>

\* line 229
WbLogRoutes ==
    /\ Running
    /\ wbpc = "log"
    /\ logged' = logRoutes(last, next, logfmt)
    /\ nInfo' = nInfo + InfoEntries(logged')
    /\ wbpc' = "last"
    /\ UNCHANGED << cfgvars, initvars, hookvars, mainvars, svccfg, mancfg,
                    last, next, t, pending, table, built, nNew, nSet, lkvars,
                    procvars, fnvars >>

\* Mutant of WbLast: last keeps its old value.
WbLastStale ==
    /\ Running
    /\ wbpc = "last"
    /\ last' = last
    /\ next' = << >>
    /\ t' = NilTable
    /\ wbpc' = "select"
    /\ UNCHANGED << cfgvars, initvars, hookvars, mainvars, svccfg, mancfg,
                    pending, tblvars, lkvars, procvars, fnvars >>

\* line 230
WbLast ==
    /\ Running
    /\ wbpc = "last"
    /\ last' = next
    /\ next' = << >>
    /\ t' = NilTable
    /\ wbpc' = "select"
    /\ UNCHANGED << cfgvars, initvars, hookvars, mainvars, svccfg, mancfg,
                    pending, tblvars, lkvars, procvars, fnvars >>

\* ------------------------------------------------------------- Lookup ----
\* line 93 / line 109: route.GetTable(), the one read of the table store
LookupGet(kind, host) ==
    /\ Running
    /\ listeners
    /\ ~shuttingDown
    /\ lkpc = "idle"
    /\ lkkind' = kind
    /\ lkhost' = host
    /\ snap' = table
    /\ gets' = 1
    /\ result' = Nil
    /\ warned' = FALSE
    /\ lkpc' = "lookup"
    /\ UNCHANGED << cfgvars, initvars, hookvars, mainvars, wbvars, tblvars,
                    procvars, fnvars >>

HTTPLookupGet   == \E host \in Hosts : LookupGet("http", host)
TCPSNILookupGet == \E host \in Hosts : LookupGet("tcp", host)

\* Mutant of LookupReceiver: the table store is read again for the pick.
LookupReceiverReread == table

\* The table Table.Lookup / Table.LookupHost run on: the receiver of the
\* call, which is the value GetTable returned.
LookupReceiver == snap

\* The picker and the matcher of the call: the HTTP Lookup uses the pick
\* and match of line 78, the TCP-SNI Lookup reads route.Picker at line 109
\* and has no matcher.
LookupPicker  == IF lkkind = "http" THEN pick ELSE Picker(strategy)
LookupMatcher == IF lkkind = "http" THEN match ELSE "none"

\* line 93 / line 109: .Lookup(r, trace, pick, match) / .LookupHost(name, pick)
LookupCall ==
    /\ Running
    /\ lkpc = "lookup"
    /\ result' \in LookupTargets(LookupReceiver, lkhost)
    /\ lkpc' = "return"
    /\ UNCHANGED << cfgvars, initvars, hookvars, mainvars, wbvars, tblvars,
                    lkkind, lkhost, snap, gets, warned, procvars, fnvars >>

\* Mutant of LookupReturn: no target is a fatal error.
LookupReturnFatal ==
    /\ Running
    /\ lkpc = "return"
    /\ lkpc' = "idle"
    /\ lkkind' = Nil
    /\ lkhost' = Nil
    /\ snap' = InitTable
    /\ gets' = 0
    /\ warned' = (result = Nil)
    /\ IF result = Nil
       THEN ProcessEnds("fatal: no route")
       ELSE UNCHANGED procvars
    /\ UNCHANGED << cfgvars, initvars, hookvars, mainvars, wbvars, tblvars,
                    result, fnvars >>

\* lines 94-97 / lines 110-113: a nil target is logged as a warning, and
\* the target is returned to the caller.
LookupReturn ==
    /\ Running
    /\ lkpc = "return"
    /\ lkpc' = "idle"
    /\ lkkind' = Nil
    /\ lkhost' = Nil
    /\ snap' = InitTable
    /\ gets' = 0
    /\ warned' = (result = Nil)
    /\ UNCHANGED << cfgvars, initvars, hookvars, mainvars, wbvars, tblvars,
                    result, procvars, fnvars >>

\* ------------------------------------------------------ specification ----
Init ==
    /\ backend \in BackendCfgs
    /\ strategy \in Strategies
    /\ matcher \in Matchers
    /\ logfmt \in LogFormats
    /\ now = 0
    /\ deadline = 0
    /\ err = Nil
    /\ attemptLate = FALSE
    /\ mainpc = "load"
    /\ exitcode = Nil
    /\ registryDefault = Nil
    /\ registered = FALSE
    /\ hookpc = "listen"
    /\ shuttingDown = FALSE
    /\ deregCalls = 0
    /\ admin = FALSE
    /\ listeners = FALSE
    /\ nWatch = 0
    /\ pick = Nil
    /\ match = Nil
    /\ wbpc = "off"
    /\ svccfg = << >>
    /\ mancfg = << >>
    /\ last = << >>
    /\ next = << >>
    /\ t = NilTable
    /\ pending = MaxUpdates
    /\ table = InitTable
    /\ built = { }
    /\ nNew = 0
    /\ nSet = 0
    /\ nInfo = 0
    /\ logged = << >>
    /\ lkpc = "idle"
    /\ lkkind = Nil
    /\ lkhost = Nil
    /\ snap = InitTable
    /\ gets = 0
    /\ result = Nil
    /\ warned = FALSE
    /\ fnpc = "off"
    /\ diffs = << >>
    /\ delta = << >>

Next ==
    \/ MainLoadConfig
    \/ InitBackendStart
    \/ Tick
    \/ InitBackendSwitch
    \/ InitBackendRegister
    \/ InitBackendDeadline
    \/ InitBackendSleep
    \/ InitBackendShutdown
    \/ Signal
    \/ HookShutdown
    \/ HookCheckDefault
    \/ HookDeregister
    \/ MainGoWatch
    \/ MainStartAdmin
    \/ MainStartListeners
    \/ MainWait
    \/ WbWatch
    \/ WbRecvServices
    \/ WbRecvManual
    \/ WbNewTable
    \/ WbSetTable
    \/ WbLogRoutes
    \/ WbLast
    \/ HTTPLookupGet
    \/ TCPSNILookupGet
    \/ LookupCall
    \/ LookupReturn

Spec == Init /\ [][Next]_vars

\* The main goroutine is scheduled, the calls of initBackend return and
\* time advances.
InitBackendStep ==
    \/ InitBackendStart
    \/ InitBackendSwitch
    \/ InitBackendRegister
    \/ InitBackendDeadline
    \/ InitBackendSleep
    \/ InitBackendShutdown

FairSpec == Spec /\ WF_vars(InitBackendStep) /\ WF_vars(Tick)

\* The watchBackend goroutine is scheduled: each step of it that is not a
\* wait on the channels is taken.
WatchBackendStep ==
    \/ WbWatch
    \/ WbNewTable
    \/ WbSetTable
    \/ WbLogRoutes
    \/ WbLast

\* ENABLED <<WatchBackendStep>>_vars, written out: each of these steps
\* needs the process to run and watchBackend to be at its position, and
\* each changes wbpc.
WatchBackendEnabled ==
    /\ Running
    /\ wbpc \in { "watch", "parse", "set", "log", "last" }

\* Weak fairness of WatchBackendStep.
WatchFairSpec ==
    Spec /\ ([]<>(~WatchBackendEnabled) \/ []<><<WatchBackendStep>>_vars)

\* ------------------------------------------- logRoutes on its own ----
\* logRoutes and fmtDiff applied to drawn arguments: every list of at most
\* MaxSegs diffs over SegTexts, the pair (last, next) that list is a diff
\* of, and every format.
MaxSegs == 3

SegTexts == { << >>, << NL >>, << "a" >>, << "a", NL, NL, "b" >> }

DiffTypes == { "equal", "delete", "insert" }

Segments == [ Type : DiffTypes, Text : SegTexts ]

DiffLists == UNION { [ 1..n -> Segments ] : n \in 0..MaxSegs }

\* The text a list of diffs starts from (its equal and deleted parts) and
\* the text it leads to (its equal and inserted parts).
RECURSIVE TextOf(_, _)
TextOf(ds, op) ==
    IF ds = << >> THEN << >>
    ELSE (IF Head(ds).Type \in { "equal", op } THEN Head(ds).Text ELSE << >>)
         \o TextOf(Tail(ds), op)

FnInit ==
    /\ diffs \in DiffLists
    /\ last = TextOf(diffs, "delete")
    /\ next = TextOf(diffs, "insert")
    /\ logfmt \in LogFormats
    /\ fnpc = "fmtDiff"
    /\ delta = << >>
    /\ logged = << >>
    /\ backend = "consul"
    /\ strategy = "rnd"
    /\ matcher = "prefix"
    /\ now = 0
    /\ deadline = 0
    /\ err = Nil
    /\ attemptLate = FALSE
    /\ mainpc = "wait"
    /\ exitcode = Nil
    /\ registryDefault = "consul"
    /\ registered = TRUE
    /\ hookpc = "listen"
    /\ shuttingDown = FALSE
    /\ deregCalls = 0
    /\ admin = TRUE
    /\ listeners = TRUE
    /\ nWatch = 1
    /\ pick = "rnd"
    /\ match = "prefix"
    /\ wbpc = "log"
    /\ svccfg = << >>
    /\ mancfg = << >>
    /\ t = NilTable
    /\ pending = 0
    /\ table = InitTable
    /\ built = { }
    /\ nNew = 0
    /\ nSet = 0
    /\ nInfo = 0
    /\ lkpc = "idle"
    /\ lkkind = Nil
    /\ lkhost = Nil
    /\ snap = InitTable
    /\ gets = 0
    /\ result = Nil
    /\ warned = FALSE

\* line 257: delta := fmtDiff(diffs)
FnFmtDiff ==
    /\ fnpc = "fmtDiff"
    /\ delta' = fmtDiff(diffs)
    /\ fnpc' = "logRoutes"
    /\ UNCHANGED << diffs, cfgvars, initvars, hookvars, mainvars, wbvars,
                    tblvars, lkvars, procvars >>

\* lines 234-268: logRoutes(last, next, format)
FnLogRoutes ==
    /\ fnpc = "logRoutes"
    /\ logged' = logRoutes(last, next, logfmt)
    /\ nInfo' = nInfo + InfoEntries(logged')
    /\ fnpc' = "done"
    /\ UNCHANGED << diffs, delta, cfgvars, initvars, hookvars, mainvars,
                    wbvars, table, built, nNew, nSet, lkvars, procvars >>

FnNext ==
    \/ FnFmtDiff
    \/ FnLogRoutes

FnSpec == FnInit /\ [][FnNext]_vars

\* ------------------------------------------------------------- claims ----
Published == { InitTable } \cup built

\* A wake: watchBackend received one value from a watch channel.
Wake == pending' = pending - 1

\* C1: while watchBackend handles a merged text that route.NewTable
\* rejects, the published table, the number of SetTable calls and the
\* logged diffs stay as they are and the loop goes back to its select; the
\* publishing steps (SetTable, logRoutes, last = next) are only ever
\* reached with a text that parses.
C1_FailedParseKeepsTable ==
    [][ /\ (wbpc = "parse" /\ NewTable(next).err # Nil) =>
              /\ table' = table
              /\ nSet' = nSet
              /\ nInfo' = nInfo
              /\ wbpc' \in { "parse", "select" }
        /\ (wbpc' \in { "set", "log", "last" }) => NewTable(next').err = Nil
      ]_vars

\* C1 witness: a table with routes is published, the pair now held failed
\* to parse (it differs from last and NewTable rejects it) and the loop is
\* back at its select.
C1_Witness ==
    /\ wbpc = "select"
    /\ table # InitTable
    /\ table = NewTable(last).t
    /\ Merge(svccfg, mancfg) # last
    /\ NewTable(Merge(svccfg, mancfg)).err # Nil
    /\ nNew > nSet

\* C2 as stated: a wake that leaves the pair (svccfg, mancfg) as the wake
\* before it left it is discarded, whatever the pair: no NewTable call.
C2_SamePairNeverParsedAgain ==
    [][ (Wake /\ pending < MaxUpdates
              /\ svccfg' = svccfg /\ mancfg' = mancfg)
        => (wbpc' = "select" /\ nNew' = nNew) ]_vars

\* C2 amended: a wake that leaves the pair as the wake before it left it is
\* discarded without parsing, publishing or logging when the pair's merged
\* text equals last (the text last published); otherwise the pair is one
\* that failed to parse, and it goes to route.NewTable again.
C2_SamePairDiscardedIfApplied ==
    [][ (Wake /\ pending < MaxUpdates
              /\ svccfg' = svccfg /\ mancfg' = mancfg)
        => \/ /\ svccfg \o << NL >> \o mancfg = last
              /\ wbpc' = "select"
              /\ nNew' = nNew /\ nSet' = nSet /\ nInfo' = nInfo
              /\ table' = table
           \/ /\ svccfg \o << NL >> \o mancfg # last
              /\ NewTable(svccfg \o << NL >> \o mancfg).err # Nil
              /\ wbpc' = "parse"
      ]_vars

\* C2 witness: two wakes, the second with the pair of the first, and one
\* NewTable call and one SetTable call in all.
C2_Witness ==
    /\ wbpc = "select"
    /\ pending = MaxUpdates - 2
    /\ (svccfg = << >> \/ mancfg = << >>)
    /\ Merge(svccfg, mancfg) = last
    /\ nNew = 1
    /\ nSet = 1

\* C3: a wake replaces one of svccfg and mancfg by the value received and
\* leaves the other as it was, and the text it compares with last and
\* hands to route.NewTable is svccfg + "\n" + mancfg, in this order.
C3_WakeMergesServiceThenManual ==
    [][ Wake =>
          /\ \/ (svccfg' \in Configs /\ mancfg' = mancfg)
             \/ (mancfg' \in Configs /\ svccfg' = svccfg)
          /\ \/ /\ wbpc' = "parse"
                /\ next' = svccfg' \o << NL >> \o mancfg'
                /\ next' # last
             \/ /\ wbpc' = "select"
                /\ last = svccfg' \o << NL >> \o mancfg'
      ]_vars

\* C3 witness: the manual config arrived after the service config, which
\* is kept, and the merged text has the service config first.
C3_Witness ==
    /\ wbpc = "parse"
    /\ svccfg = << "a" >>
    /\ mancfg = << "b" >>
    /\ last = << "a", NL >>
    /\ next = << "a", NL, "b" >>

\* C4: the table store and every Lookup in flight hold the initial table
\* or a table that a successful route.NewTable call of watchBackend
\* returned, never the nil table of a failed parse; the table watchBackend
\* is about to publish is such a table already.
C4_ReadersSeeBuiltTables ==
    /\ table \in Published
    /\ lkpc # "idle" => snap \in Published
    /\ wbpc \in { "set", "log", "last" } => t \in built
    /\ \A b \in built : ~b.isnil

\* C4 witness: a Lookup holds the table published before the one the
\* store holds now.
C4_Witness ==
    /\ lkpc = "lookup"
    /\ snap # InitTable
    /\ snap # table
    /\ nSet >= 2

\* C5: a Lookup that returns has read the table store once, and the
\* target it returns is one the table it read gives for its host (or none
\* when that table has no route), whatever was published meanwhile.
C5_LookupOnOneSnapshot ==
    lkpc = "return" =>
        /\ gets = 1
        /\ snap \in Published
        /\ result \in LookupTargets(snap, lkhost)

\* C5 witness: a TCP-SNI Lookup returns a target of the table it read,
\* which the table published meanwhile does not hold.
C5_Witness ==
    /\ lkpc = "return"
    /\ lkkind = "tcp"
    /\ result # Nil
    /\ result \notin LookupTargets(table, lkhost)

\* C6: one watchBackend goroutine is started at most, and the table store
\* changes only in its SetTable step, one call at a time, to the table the
\* loop built from the text it is handling.
C6_SingleWriter ==
    [][ /\ nWatch' <= 1
        /\ (wbpc' # "off") => nWatch' = 1
        /\ (table' # table \/ nSet' # nSet) =>
              /\ wbpc = "set" /\ wbpc' = "log"
              /\ nSet' = nSet + 1
              /\ table' = NewTable(next).t
              /\ NewTable(next).err = Nil
      ]_vars

\* C6 witness: the loop has published twice.
C6_Witness ==
    /\ nWatch = 1
    /\ nSet = 2
    /\ table = NewTable(last).t
    /\ wbpc = "select"

\* C7 as stated: once exit.Shutdown has set the flag, route.SetTable is
\* not called any more.
C7_NoSetTableAfterShutdown ==
    [][ shuttingDown => nSet' = nSet ]_vars

\* C8 as stated: when the hook has run, Deregister was called once.
C8_DeregisterExactlyOnce ==
    hookpc = "done" => deregCalls = 1

\* C8 amended: the hook calls Deregister at most once; it calls it when
\* registry.Default is not nil at line 55 and still not nil at line 58, and
\* returns without the call when registry.Default is nil at line 55.
C8_DeregisterOnceIfBackend ==
    [][ /\ deregCalls' <= 1
        /\ (deregCalls' # deregCalls) => hookpc = "line58"
        /\ (hookpc = "line55" /\ hookpc' = "done") =>
              (registryDefault = Nil /\ deregCalls' = 0)
        /\ (hookpc = "line55" /\ hookpc' = "line58") =>
              registryDefault # Nil
        /\ (hookpc = "line58" /\ hookpc' = "done" /\ registryDefault # Nil) =>
              (deregCalls' = 1 /\ ~registered')
      ]_vars

\* C8 witness: the signal arrived while initBackend was retrying, and the
\* hook has called Deregister.
C8_Witness ==
    /\ hookpc = "done"
    /\ deregCalls = 1
    /\ InInitBackend

\* C9 as stated: an attempt that began after the deadline never lets
\* initBackend return.
C9_NoLateAttemptProceeds ==
    [][ (mainpc = "register" /\ mainpc' = "goWatch") => ~attemptLate ]_vars

\* C9 amended: the deadline is checked after a failed attempt only: when
\* it has passed then, the process ends with the timeout error, and
\* initBackend sleeps and retries only when it has not passed.
C9_FatalAfterFailedLateAttempt ==
    [][ /\ (mainpc = "deadline" /\ now > deadline /\ mainpc' # "deadline") =>
              mainpc' = "exited"
        /\ (mainpc # "sleep" /\ mainpc' = "sleep") =>
              (mainpc = "deadline" /\ now <= deadline /\ err # Nil)
        /\ (exitcode' = "fatal: timeout" /\ exitcode = Nil) =>
              (mainpc = "deadline" /\ now > deadline /\ err # Nil)
      ]_vars

\* C9 witness: the process ended with the timeout error.
C9_Witness ==
    /\ exitcode = "fatal: timeout"
    /\ ~registered
    /\ nWatch = 0

Serving == admin /\ listeners /\ wbpc # "off"

\* C10: initBackend returns only from a Register call that returned no
\* error on a backend created without error; watchBackend, the admin
\* server and the listeners are started only after that; the other ends
\* of initBackend end the process with none of them started; and
\* initBackend ends.
C10_ServingOnlyAfterRegister ==
    /\ [][ (mainpc # "goWatch" /\ mainpc' = "goWatch") =>
              /\ mainpc = "register"
              /\ err = Nil /\ err' = Nil
              /\ registryDefault \in BackendNames
              /\ registered'
         ]_vars
    /\ []( (nWatch > 0 \/ wbpc # "off" \/ admin \/ listeners) =>
              /\ mainpc \in { "startAdmin", "startListeners", "wait", "exited" }
              /\ registryDefault \in BackendNames
              /\ err = Nil )
    /\ []( exitcode \in { "fatal: unknown backend", "fatal: timeout", "exit 1" }
              => (nWatch = 0 /\ wbpc = "off" /\ ~admin /\ ~listeners) )
    /\ (mainpc = "initBackend") ~>
          (mainpc \notin { "initBackend", "switch", "register", "deadline",
                           "sleep", "shutdown" })

\* C10 witness: the process serves and is registered.
C10_Witness ==
    /\ Serving
    /\ mainpc = "wait"
    /\ registered
    /\ registryDefault = "consul"

C12_NoRouteIsNotFatal ==
    /\ [][ (lkpc = "return" /\ lkpc' # "return") =>
              /\ lkpc' = "idle"
              /\ result' = result
              /\ warned' = (result = Nil)
              /\ UNCHANGED << table, shuttingDown, mainpc, exitcode,
                              listeners, hookpc >>
         ]_vars
    /\ []( (lkpc = "idle" /\ Running /\ listeners /\ ~shuttingDown) =>
              (ENABLED HTTPLookupGet /\ ENABLED TCPSNILookupGet) )

\* C12 witness: a Lookup returned nil with its warning while a table with
\* routes is published, the process runs and the next Lookup can start.
C12_Witness ==
    /\ lkpc = "idle"
    /\ warned
    /\ result = Nil
    /\ Running
    /\ ~shuttingDown
    /\ nSet > 0
    /\ ENABLED HTTPLookupGet

\* The [INFO] entries among the entries a logRoutes call wrote.
InfoOf(entries) == SelectSeq(entries, LAMBDA e : e.level = "INFO")

LogStep == wbpc = "log" /\ wbpc' # "log"

\* C13 as claimed: every SetTable of watchBackend is followed by exactly
\* one [INFO] entry, the merged text in format "all" and the delta
\* otherwise, and nothing else writes an [INFO] entry.
C13_OneInfoPerSetTable ==
    [][ IF LogStep
        THEN /\ nInfo' = nInfo + 1
             /\ Len(InfoOf(logged')) = 1
        ELSE nInfo' = nInfo ]_vars

\* C13, amended: the logRoutes call after a SetTable writes one [INFO]
\* entry with the merged text in format "all"; in any other format it
\* writes one [INFO] entry with the delta when the delta is not empty and
\* none when it is empty; no other step of the program writes an [INFO]
\* entry, so a discarded wake and a failed parse write none.
C13_AtMostOneInfoPerSetTable ==
    [][ IF LogStep
        THEN LET info  == InfoOf(logged')
                 dl    == fmtDiff(DiffMain(last, next))
             IN  /\ nInfo' = nInfo + Len(info)
                 /\ logfmt = "all" =>
                        info = << [ level |-> "INFO", text |-> next ] >>
                 /\ (logfmt # "all" /\ dl # << >>) =>
                        info = << [ level |-> "INFO", text |-> dl ] >>
                 /\ (logfmt # "all" /\ dl = << >>) => info = << >>
        ELSE nInfo' = nInfo /\ logged' = logged ]_vars

\* C13 witness: in format "delta" a table was published from a merged text
\* that differs from the last one by white space only, and logRoutes wrote
\* no entry.
C13_Witness ==
    /\ logfmt = "delta"
    /\ wbpc = "last"
    /\ nSet = 1
    /\ nInfo = 0
    /\ logged = << >>
    /\ next # last

\* The entries of the given level among the entries a logRoutes call wrote.
LevelOf(entries, level) == SelectSeq(entries, LAMBDA e : e.level = level)

\* C14: for a format that is neither "delta" nor "all", logRoutes writes
\* one warning and then exactly what it writes for format "delta" on the
\* same last and next; it writes one warning only, which is one recursive
\* call, and the process does not end.
C14_UnknownFormatFallsBackToDelta ==
    [][ (fnpc = "logRoutes" /\ fnpc' = "done" /\
         logfmt \notin { "delta", "all" }) =>
           /\ Len(LevelOf(logged', "WARN")) = 1
           /\ Head(logged').level = "WARN"
           /\ Tail(logged') = logRoutes(last, next, "delta")
           /\ Tail(logged') =
                 (IF fmtDiff(DiffMain(last, next)) # << >>
                  THEN << [ level |-> "INFO",
                            text |-> fmtDiff(DiffMain(last, next)) ] >>
                  ELSE << >>)
           /\ UNCHANGED << mainpc, exitcode, shuttingDown, table >>
      ]_vars

\* C14 witness: logRoutes was called with the format "none" and wrote a
\* warning and then the delta.
C14_Witness ==
    /\ fnpc = "done"
    /\ logfmt = "none"
    /\ Len(logged) = 2
    /\ logged[1].level = "WARN"
    /\ logged[2].level = "INFO"
    /\ logged[2].text # next

\* C15: while watchBackend waits on its channels, last is the merged text
\* the table in the table store was built from, or last is empty and no
\* table was published yet; last changes only in the step after the
\* logRoutes call, which follows the SetTable call, and it becomes the
\* text that was published; a discarded wake and a failed parse leave it
\* as it was.
C15_LastIsPublishedText ==
    /\ []( wbpc = "select" =>
              \/ nSet = 0 /\ last = << >> /\ table = InitTable
              \/ /\ nSet > 0
                 /\ NewTable(last).err = Nil
                 /\ table = NewTable(last).t )
    /\ [][ /\ last' # last =>
                 /\ wbpc = "last" /\ wbpc' = "select"
                 /\ last' = next
                 /\ table = NewTable(next).t
           /\ wbpc' # wbpc =>
                 /\ wbpc' = "last" => wbpc = "log"
                 /\ wbpc' = "log" => (wbpc = "set" /\ nSet' = nSet + 1)
                 /\ wbpc = "set" => wbpc' = "log"
                 /\ wbpc = "log" => wbpc' = "last"
                 /\ wbpc = "last" => wbpc' = "select"
         ]_vars

\* C15 witness: watchBackend waits after it published two tables and
\* dropped a text that did not parse.
C15_Witness ==
    /\ wbpc = "select"
    /\ nSet = 2
    /\ nNew = 3
    /\ last # << >>
    /\ table = NewTable(last).t

\* initBackend is past a failed attempt: at the deadline check, in the
\* sleep or at the check of exit.ShuttingDown.
AfterFailedAttempt == mainpc \in { "deadline", "sleep", "shutdown" }

\* A step of the main goroutine.
MainStep == mainpc' # mainpc /\ hookpc' = hookpc

\* C16 as claimed: with shutdown signalled, initBackend leaves the handling
\* of a failed attempt only by exit.Exit(1) after it read
\* exit.ShuttingDown.
C16_ExitOneAfterShutdown ==
    [][ (shuttingDown /\ AfterFailedAttempt /\ MainStep) =>
           \/ AfterFailedAttempt'
           \/ mainpc' = "exited" /\ exitcode' = "exit 1" ]_vars

\* C16, amended: with shutdown signalled, initBackend after a failed
\* attempt starts no other attempt; it ends the process, by the fatal
\* timeout of line 190 when the deadline has passed and by exit.Exit(1)
\* at line 195 otherwise; and the loop goes on to another attempt only
\* from a check that read the flag as not set.
C16_NoRetryAfterShutdown ==
    /\ [][ (shuttingDown /\ AfterFailedAttempt /\ MainStep) =>
              \/ AfterFailedAttempt'
              \/ /\ mainpc = "shutdown"
                 /\ mainpc' = "exited" /\ exitcode' = "exit 1"
              \/ /\ mainpc = "deadline" /\ now > deadline
                 /\ mainpc' = "exited" /\ exitcode' = "fatal: timeout"
         ]_vars
    /\ [][ (mainpc = "shutdown" /\ mainpc' = "switch") => ~shuttingDown ]_vars
    /\ (shuttingDown /\ AfterFailedAttempt) ~> (mainpc = "exited")

\* C16 witness: initBackend read the flag after a sleep and ended the
\* process with status 1.
C16_Witness ==
    /\ shuttingDown
    /\ exitcode = "exit 1"
    /\ ~registered
    /\ nWatch = 0

\* The lines of the text fmtDiff returned.
EmittedLines(text) == IF text = << >> THEN << >> ELSE SplitLines(text)

\* The lines of the trimmed texts of the diffs of one type.
LinesOfType(ds, op) ==
    UNION { { SplitLines(TrimSpace(ds[i].Text))[k] :
                  k \in 1..Len(SplitLines(TrimSpace(ds[i].Text))) } :
            i \in { j \in 1..Len(ds) : ds[j].Type = op } }

\* The diffs that are not equal segments.
Changes(ds) == SelectSeq(ds, LAMBDA d : d.Type # "equal")

\* C17: for every list of diffs, each line of the delta is "+ " followed
\* by a line of inserted text or "- " followed by a line of deleted text,
\* no line is blank after its prefix, and the equal segments add nothing.
C17_DeltaLinesArePrefixedChanges ==
    fnpc # "fmtDiff" =>
        /\ \A k \in 1..Len(EmittedLines(delta)) :
              LET line == EmittedLines(delta)[k]
                  body == SubSeq(line, 3, Len(line))
              IN  /\ Len(line) >= 2
                  /\ \/ /\ SubSeq(line, 1, 2) = << "+", " " >>
                        /\ body \in LinesOfType(diffs, "insert")
                     \/ /\ SubSeq(line, 1, 2) = << "-", " " >>
                        /\ body \in LinesOfType(diffs, "delete")
                  /\ TrimSpace(body) # << >>
        /\ delta = fmtDiff(Changes(diffs))

\* watchBackend waits on its channels and, when the merged text of the
\* configs it received last parses, that text is the one it published
\* last and the table store holds the table built from it.
Converged ==
    /\ wbpc = "select"
    /\ NewTable(Merge(svccfg, mancfg)).err = Nil =>
          /\ table = NewTable(Merge(svccfg, mancfg)).t
          /\ pending < MaxUpdates => last = Merge(svccfg, mancfg)

\* C18: with watchBackend scheduled and finitely many updates delivered,
\* from some point on, unless the process has ended or watchBackend was
\* never started, watchBackend waits on its channels, every update is
\* consumed, and whenever the merged text of the latest configs parses
\* the table store holds the table built from it, whatever was dropped
\* before.
C18_Converges ==
    <>[](~Running \/ wbpc = "off" \/ Converged)

\* C18 witness: every update was delivered, one of them did not parse, one
\* was dropped as no change, and watchBackend waits with the table built
\* from the last merged text.
C18_Witness ==
    /\ Running
    /\ pending = 0
    /\ nNew = 2
    /\ nSet = 1
    /\ NewTable(Merge(svccfg, mancfg)).err = Nil
    /\ Converged

\* C19: once the hook has called Deregister, no Register call returns
\* without error: the instance is never registered after it was
\* deregistered.
C19_NoRegisterAfterDeregister ==
    [][ deregCalls > 0 => ~(~registered /\ registered') ]_vars

=============================================================================
